---- MODULE Spec2Model ----
(***************************************************************************)
(* Model of the verification engine of src/iptv_checker_optimized.py:      *)
(* IPTVChecker.run (batch scheduler), IPTVChecker.check_credential (gated  *)
(* probe) and IPTVChecker.save_hit (hit recorder).                         *)
(*                                                                         *)
(* All coroutines run on one asyncio event loop, so the code between two   *)
(* awaits is one atomic step.  Each action below is one such step.         *)
(***************************************************************************)
EXTENDS Integers, Sequences, FiniteSets, TLC

\* ------------------------------------------------------------------ bounds
\* Longest credential sequence handed to run().
MaxCreds == 4
\* Largest gate capacity (max_concurrent) an engine is constructed with.
MaxConcurrent == 2
\* run() is invoked at most this many times on one engine (SpecReuse only).
MaxRuns == 2
\* Longest credential sequence in SpecReuse (it fits one chunk).
MaxReuseCreds == 2
\* Chunk length of run(); the source fixes it at 100 (line 280), scaled down
\* here so that several chunks fit into MaxCreds.
batch_size == 3
\* Progress cadence of check_credential; the source fixes it at 50
\* (line 191), scaled down so that observations happen within MaxCreds.
progress_every == 2
\* Longest credential sequence in SpecObserved (it fits one chunk).
MaxObservedCreds == 1
\* self.timeout in clock ticks (SpecObserved only); the source defaults it to
\* 8 seconds (line 17).
timeout == 2

\* ------------------------------------------------------------------ inputs
\* The (username, password) pairs a credential source can yield.
Pairs == {"alice:secret", "bob:hunter2"}

\* What load_credentials / download_combo_from_url can return: the empty
\* sequence, and every sequence up to length n that repeats two pairs a, b in
\* turn (a = b gives duplicates only, a # b gives distinct neighbours and
\* duplicates two positions apart).
SeqsUpTo(S, n) == {[j \in 1..m |-> IF j % 2 = 1 THEN a ELSE b] : m \in 0..n, a \in S, b \in S}

CredSeqs == SeqsUpTo(Pairs, MaxCreds)
ReuseCredSeqs == SeqsUpTo({"alice:secret"}, MaxReuseCreds)
ObservedCredSeqs == SeqsUpTo({"alice:secret"}, MaxObservedCreds)

\* Answers of the target to the authentication request.  kind is how
\* session.get / response.json() ended; the other fields are what the
\* response carried.
AuthResponses ==
    { [kind |-> k, status |-> 0, body |-> "none", auth |-> 0, ustatus |-> "none"] :
          k \in {"transport_error", "timeout"} }
    \cup { [kind |-> "response", status |-> 404, body |-> "none", auth |-> 0, ustatus |-> "none"],
           [kind |-> "response", status |-> 200, body |-> "malformed", auth |-> 0, ustatus |-> "none"],
           [kind |-> "response", status |-> 200, body |-> "no_user_info", auth |-> 0, ustatus |-> "none"] }
    \cup { [kind |-> "response", status |-> 200, body |-> "user_info", auth |-> a, ustatus |-> u] :
          a \in {0, 1}, u \in {"Active", "Expired"} }

\* Answers of the target to the categories request.  names is the
\* category_name of each element of the JSON list.
CatResponses ==
    { [kind |-> k, status |-> 0, body |-> "none", names |-> <<>>] :
          k \in {"transport_error", "timeout"} }
    \cup { [kind |-> "response", status |-> 500, body |-> "none", names |-> <<>>],
           [kind |-> "response", status |-> 200, body |-> "malformed", names |-> <<>>],
           [kind |-> "response", status |-> 200, body |-> "not_a_list", names |-> <<>>] }
    \cup { [kind |-> "response", status |-> 200, body |-> "list", names |-> n] :
          n \in {<<>>, <<"news">>, <<"", "news">>} }

\* How an append of save_hit can end.
AppendOutcomes == {"ok", "open_error", "write_error"}

\* ------------------------------------------------------------------ state
VARIABLES
    max_concurrent,  \* self.max_concurrent
    semaphore,       \* free slots of self.semaphore
    tested,          \* self.tested
    total_tests,     \* self.total_tests
    total_hits,      \* self.total_hits
    credentials,     \* run(): the loaded sequence
    runpc,           \* run(): where it stands
    batch_i,         \* run(): loop variable i of the chunk loop
    cursor,          \* run(): position of the next result the save loop looks at
    pc,              \* per position: where its check_credential task stands
    result,          \* per position: what its task returned
    path,            \* per position: the exit path its task took
    probes,          \* per position: authentication requests issued
    catreqs,         \* per position: categories requests issued
    saved,           \* per position: how save_hit ended for its result
    log,             \* records appended to ./hits/<server>.txt
    log_exists,      \* whether the log file has been created
    progress,        \* progress observations printed
    runs,            \* run() invocations on this engine
    obs,             \* per position: the answers its calls got and their clocks
                     \* (kept in SpecObserved only)
    plan             \* the environment fixed for a run: the answer of the target
                     \* to each pair and which save_hit call fails, 0 for none
                     \* (chosen in SpecDet only, 0 elsewhere)

vars == <<max_concurrent, semaphore, tested, total_tests, total_hits, credentials,
          runpc, batch_i, cursor, pc, result, path, probes, catreqs, saved,
          log, log_exists, progress, runs, obs, plan>>

engineVars == <<max_concurrent, semaphore, tested, total_tests, total_hits>>
fileVars == <<log, log_exists>>

Positions == 1..Len(credentials)

None == [kind |-> "None"]
Pending == [kind |-> "pending"]
HitDict(user, cats) == [kind |-> "dict", user_info |-> user, categories |-> cats]

\* Positions of the chunk credentials[i:i + batch_size].
Batch(i) == {j \in Positions : i < j /\ j <= i + batch_size}
\* Index of the chunk a position belongs to.
Chunk(j) == (j - 1) \div batch_size

\* Positions whose task holds a gate slot.
Holders == {j \in Positions : pc[j] \in {"auth", "cats", "exit"}}

\* ------------------------------------------------------------------ __init__
Init ==
    /\ max_concurrent \in 1..MaxConcurrent
    /\ semaphore = max_concurrent
    /\ tested = 0
    /\ total_tests = 0
    /\ total_hits = 0
    /\ credentials = <<>>
    /\ runpc = "idle"
    /\ batch_i = 0
    /\ cursor = 0
    /\ pc = <<>>
    /\ result = <<>>
    /\ path = <<>>
    /\ probes = <<>>
    /\ catreqs = <<>>
    /\ saved = <<>>
    /\ log = <<>>
    /\ log_exists = FALSE
    /\ progress = <<>>
    /\ runs = 0
    /\ obs = <<>>
    /\ plan = 0

\* ------------------------------------------------------------------ check_credential
\* A gate that grants a slot whether or not one is free.
CanAcquireAlways(v) == TRUE

\* asyncio.Semaphore: a slot is granted only while one is free.
CanAcquire(v) == v > 0

\* The test of line 166 without its status part: an expired account passes.
AuthOutcomeIgnoresExpiry(r) ==
    IF r.kind # "response" THEN "exception"
    ELSE IF r.status # 200 THEN "rejected"
    ELSE IF r.body = "malformed" THEN "exception"
    ELSE IF r.body = "no_user_info" \/ r.auth # 1 THEN "rejected"
    ELSE "authenticated"

\* A probe whose request fails whenever another task holds a slot, as with
\* state shared between the tasks: its verdict depends on the schedule.
AuthOutcomeSharedSession(r) ==
    IF Cardinality(Holders) > 1 THEN "exception"
    ELSE IF r.kind # "response" THEN "exception"
    ELSE IF r.status # 200 THEN "rejected"
    ELSE IF r.body = "malformed" THEN "exception"
    ELSE IF r.body = "no_user_info" \/ r.auth # 1 \/ r.ustatus = "Expired" THEN "rejected"
    ELSE "authenticated"

\* Lines 159-167 and 187-188: how the authentication call decides the probe.
\*   "exception"     session.get or response.json() raised (caught at 187)
\*   "rejected"      return None at 161 or 167
\*   "authenticated" falls through to the categories request
AuthOutcome(r) ==
    IF r.kind # "response" THEN "exception"
    ELSE IF r.status # 200 THEN "rejected"
    ELSE IF r.body = "malformed" THEN "exception"
    ELSE IF r.body = "no_user_info" \/ r.auth # 1 \/ r.ustatus = "Expired" THEN "rejected"
    ELSE "authenticated"

\* str.upper() on the category names the target can send.
Upper(n) == CASE n = "news" -> "NEWS" [] OTHER -> n

RECURSIVE CategoryNames(_)
\* Line 177: the upper-cased category_name of every element that has one.
CategoryNames(names) ==
    IF names = <<>> THEN <<>>
    ELSE IF Head(names) = "" THEN CategoryNames(Tail(names))
    ELSE <<Upper(Head(names))>> \o CategoryNames(Tail(names))

\* Lines 170-179: categories stays [] unless the call answers 200 with a list.
Categories(r) ==
    IF r.kind = "response" /\ r.status = 200 /\ r.body = "list"
    THEN CategoryNames(r.names)
    ELSE <<>>

\* A probe without the handler of line 187: an exception leaves the task as
\* an exception object instead of a verdict.
FailureVerdictUncaught(o) == IF o = "exception" THEN [kind |-> "Exception"] ELSE None

\* What a task returns when its authentication step did not succeed
\* (o is "rejected" or "exception"): None at 161, 167 and 188.
FailureVerdict(o) == None

\* The increment placed on the return paths only, not in a finally block.
TestedOnReturnOnly(t, p) == IF p = "exception" THEN t ELSE t + 1

\* Line 190, in the finally block: runs on every exit path p.
TestedOnExit(t, p) == t + 1

\* A release placed on the return paths only: an exception keeps the slot.
SlotsOnReturnOnly(s, p) == IF p = "exception" THEN s ELSE s + 1

\* Leaving "async with self.semaphore" (line 153) returns the slot on every
\* exit path p.
SlotsOnExit(s, p) == s + 1

\* Line 153: the task of position j is granted a slot and, without another
\* await in between, issues the authentication request of line 159.
AcquireStep(j) ==
    /\ pc[j] = "waiting"
    /\ CanAcquire(semaphore)
    /\ semaphore' = semaphore - 1
    /\ pc' = [pc EXCEPT ![j] = "auth"]
    /\ probes' = [probes EXCEPT ![j] = @ + 1]
    /\ UNCHANGED <<max_concurrent, tested, total_tests, total_hits, credentials, runpc,
                   batch_i, cursor, result, path, catreqs, saved, log, log_exists,
                   progress, runs, plan>>

Acquire(j) == AcquireStep(j) /\ UNCHANGED obs

\* Lines 159-173: the authentication call of position j ends with answer r.
\* On success the categories request is issued, otherwise the task heads for
\* its finally block with None.
AuthStep(j, r) ==
    /\ pc[j] = "auth"
    /\ LET o == AuthOutcome(r) IN
       IF o = "authenticated"
       THEN /\ pc' = [pc EXCEPT ![j] = "cats"]
            /\ catreqs' = [catreqs EXCEPT ![j] = @ + 1]
            /\ UNCHANGED <<result, path>>
       ELSE /\ pc' = [pc EXCEPT ![j] = "exit"]
            /\ result' = [result EXCEPT ![j] = FailureVerdict(o)]
            /\ path' = [path EXCEPT ![j] = o]
            /\ UNCHANGED catreqs
    /\ UNCHANGED <<engineVars, credentials, runpc, batch_i, cursor, probes, saved,
                   fileVars, progress, runs, plan>>

AuthReturns(j, r) == AuthStep(j, r) /\ UNCHANGED obs

\* A probe without the inner handler of lines 171-179: a failed categories
\* call reaches the handler of line 187 and the task returns None.
CatVerdictStrict(user, r) ==
    IF r.kind = "response" /\ r.status = 200 /\ r.body = "list"
    THEN HitDict(user, Categories(r))
    ELSE None

\* Lines 170-185: the dict returned after the categories call, whatever its
\* answer r was.
CatVerdict(user, r) == HitDict(user, Categories(r))

\* Lines 173-185: the categories call of position j ends with answer r; the
\* task returns the dict whatever r is.
CatStep(j, r) ==
    /\ pc[j] = "cats"
    /\ pc' = [pc EXCEPT ![j] = "exit"]
    /\ result' = [result EXCEPT ![j] = CatVerdict(credentials[j], r)]
    /\ path' = [path EXCEPT ![j] = "authenticated"]
    /\ UNCHANGED <<engineVars, credentials, runpc, batch_i, cursor, probes, catreqs,
                   saved, fileVars, progress, runs, plan>>

CatReturns(j, r) == CatStep(j, r) /\ UNCHANGED obs

\* Lines 189-193 and the end of line 153's block: count the probe, print the
\* progress line when due, give the slot back.
Exit(j) ==
    /\ pc[j] = "exit"
    /\ tested' = TestedOnExit(tested, path[j])
    /\ progress' =
          IF tested' % progress_every = 0
          THEN Append(progress, [tested |-> tested', total |-> total_tests, hits |-> total_hits])
          ELSE progress
    /\ semaphore' = SlotsOnExit(semaphore, path[j])
    /\ pc' = [pc EXCEPT ![j] = "done"]
    /\ UNCHANGED <<max_concurrent, total_tests, total_hits, credentials, runpc, batch_i,
                   cursor, result, path, probes, catreqs, saved, fileVars, runs, obs, plan>>

\* ------------------------------------------------------------------ run
\* Lines 282-284: one task per pair of the chunk starting at i.
\* A run() that creates the tasks of every chunk at once.
LaunchedAll(i) == [j \in Positions' |-> "waiting"]

Launched(i) == [j \in Positions' |-> IF i < j /\ j <= i + batch_size THEN "waiting" ELSE "idle"]

\* total_tests assigned before the test for an empty sequence.
TotalAssignedFirst(t, creds) == Len(creds)

\* Lines 265-274: the return of line 267 comes before the assignment of
\* line 274.
TotalAfterLoad(t, creds) == IF creds = <<>> THEN t ELSE Len(creds)

\* Lines 257-284: load the credentials; return at once when there are none,
\* otherwise set total_tests and launch the first chunk.  Neither tested nor
\* total_hits is assigned here.
RunStep(creds) ==
    /\ runs' = runs + 1
    /\ credentials' = creds
    /\ batch_i' = 0
    /\ cursor' = 0
    /\ result' = [j \in 1..Len(creds) |-> Pending]
    /\ path' = [j \in 1..Len(creds) |-> "none"]
    /\ probes' = [j \in 1..Len(creds) |-> 0]
    /\ catreqs' = [j \in 1..Len(creds) |-> 0]
    /\ saved' = [j \in 1..Len(creds) |-> "no"]
    /\ total_tests' = TotalAfterLoad(total_tests, creds)
    /\ IF creds = <<>>
       THEN /\ runpc' = "no_credentials"
            /\ pc' = <<>>
       ELSE /\ runpc' = "gather"
            /\ pc' = Launched(0)
    /\ UNCHANGED <<max_concurrent, semaphore, tested, total_hits, fileVars, progress>>

RunBody(creds) == RunStep(creds) /\ UNCHANGED <<obs, plan>>

\* run() on a freshly constructed engine.
Run ==
    /\ runpc = "idle"
    /\ \E creds \in CredSeqs : RunBody(creds)

\* A join that returns as soon as one task of the chunk has returned.
GatherAny(i) == \E j \in Batch(i) : pc[j] = "done"

\* Line 284: asyncio.gather returns once every task of the chunk has returned.
GatherDone(i) == \A j \in Batch(i) : pc[j] = "done"

Join ==
    /\ runpc = "gather"
    /\ GatherDone(batch_i)
    /\ runpc' = "saving"
    /\ cursor' = batch_i + 1
    /\ UNCHANGED <<engineVars, credentials, batch_i, pc, result, path, probes, catreqs,
                   saved, fileVars, progress, runs, obs, plan>>

\* Line 287: isinstance(result, dict) and result.
IsHit(v) == v.kind = "dict"

\* A save loop that stops at the first result that is not a hit.
FirstHitOnlyAt(c) == IF c \in Batch(batch_i) /\ IsHit(result[c]) THEN c ELSE 0

\* A save loop that walks the results of the chunk backwards: the last hit
\* not yet passed to save_hit.
LastUnsavedHit(c) ==
    LET hits == {j \in Batch(batch_i) : IsHit(result[j]) /\ saved[j] = "no"}
    IN  IF hits = {} THEN 0 ELSE CHOOSE j \in hits : \A k \in hits : k <= j

\* Lines 286-287: the first result at or after position c of the current
\* chunk that is a hit; 0 when there is none.
FirstHitFrom(c) ==
    LET hits == {j \in Batch(batch_i) : j >= c /\ IsHit(result[j])}
    IN  IF hits = {} THEN 0 ELSE CHOOSE j \in hits : \A k \in hits : j <= k

\* The log opened with mode 'w': every save replaces what the file held.
LogTruncated(l, rec, outcome) == IF outcome = "ok" THEN <<rec>> ELSE l

\* Lines 243-244: the file is opened with mode 'a' and the record written at
\* its end; a failing open or write leaves the records already there.
LogAfterSave(l, rec, outcome) == IF outcome = "ok" THEN Append(l, rec) ELSE l

\* The increment placed before the append, so that it also counts a failed one.
HitsBeforeAppend(h, outcome) == h + 1

\* Line 246: reached only when lines 243-244 did not raise.
HitsAfterSave(h, outcome) == IF outcome = "ok" THEN h + 1 ELSE h

\* Lines 235-248 called from 288: append the record of the next hit.  A
\* failing open or write raises out of save_hit and, through the finally of
\* line 300, out of run(); total_hits is incremented after the write.
SaveHit(outcome) ==
    /\ runpc = "saving"
    /\ FirstHitFrom(cursor) # 0
    /\ LET j == FirstHitFrom(cursor) IN
       /\ cursor' = j + 1
       /\ log' = LogAfterSave(log, result[j], outcome)
       /\ log_exists' = (log_exists \/ outcome \in {"ok", "write_error"})
       /\ total_hits' = HitsAfterSave(total_hits, outcome)
       /\ saved' = [saved EXCEPT ![j] = IF outcome = "ok" THEN "ok" ELSE "failed"]
       /\ runpc' = IF outcome = "ok" THEN "saving" ELSE "aborted"
    /\ UNCHANGED <<max_concurrent, semaphore, tested, total_tests, credentials, batch_i,
                   pc, result, path, probes, catreqs, progress, runs, obs, plan>>

\* Lines 281-284: the save loop is through; launch the next chunk.
NextBatch ==
    /\ runpc = "saving"
    /\ FirstHitFrom(cursor) = 0
    /\ batch_i + batch_size < Len(credentials)
    /\ batch_i' = batch_i + batch_size
    /\ runpc' = "gather"
    /\ pc' = [j \in Positions |->
                IF batch_i' < j /\ j <= batch_i' + batch_size THEN "waiting" ELSE pc[j]]
    /\ UNCHANGED <<engineVars, credentials, cursor, result, path, probes, catreqs, saved,
                   fileVars, progress, runs, obs, plan>>

\* Lines 290-301: no chunk is left; print the final report and return.
Finish ==
    /\ runpc = "saving"
    /\ FirstHitFrom(cursor) = 0
    /\ batch_i + batch_size >= Len(credentials)
    /\ runpc' = "done"
    /\ UNCHANGED <<engineVars, credentials, batch_i, cursor, pc, result, path, probes,
                   catreqs, saved, fileVars, progress, runs, obs, plan>>

Probe ==
    \E j \in Positions :
        \/ Acquire(j)
        \/ \E r \in AuthResponses : AuthReturns(j, r)
        \/ \E r \in CatResponses : CatReturns(j, r)
        \/ Exit(j)

Save == \E outcome \in AppendOutcomes : SaveHit(outcome)

Next ==
    \/ Run
    \/ Probe
    \/ Join
    \/ Save
    \/ NextBatch
    \/ Finish

Spec == Init /\ [][Next]_vars

\* The event loop runs every task that can run: a task at an await whose
\* awaited thing is ready (a free slot, an ended network call) is resumed, and
\* run() goes on once gather or save_hit has returned.  Every network call
\* ends, by an answer, an error or self.timeout.
SpecFair ==
    /\ Spec
    /\ WF_vars(Probe)
    /\ WF_vars(Join)
    /\ WF_vars(Save)
    /\ WF_vars(NextBatch)
    /\ WF_vars(Finish)

\* ------------------------------------------------------------------ observed probes
\* The same engine with a clock on every network call and a record of the
\* answer each call got.
NoAnswer == [kind |-> "none"]
NoObs == [auth |-> NoAnswer, cat |-> NoAnswer, elapsed |-> 0, auth_time |-> 0, cat_time |-> 0]

\* One deadline for the whole probe: the time spent in the authentication call
\* counts against the categories call.
SharedDeadline(elapsed, spent) == elapsed + spent >= timeout

\* Lines 159 and 173: each session.get is given timeout=self.timeout of its
\* own, so a call times out when its own clock reaches it, whatever time the
\* probe spent before the call.
CallTimedOut(elapsed, spent) == elapsed >= timeout

\* Time the probe of position j spent in calls before the one in flight.
Spent(j) == IF pc[j] = "cats" THEN obs[j].auth_time ELSE 0

RunObserved ==
    /\ runpc = "idle"
    /\ \E creds \in ObservedCredSeqs :
          /\ RunStep(creds)
          /\ obs' = [j \in 1..Len(creds) |-> NoObs]
    /\ UNCHANGED plan

AcquireTimed(j) ==
    /\ AcquireStep(j)
    /\ obs' = [obs EXCEPT ![j].elapsed = 0]

\* One clock tick passes for the call of position j that is in flight.
Tick(j) ==
    /\ pc[j] \in {"auth", "cats"}
    /\ ~CallTimedOut(obs[j].elapsed, Spent(j))
    /\ obs' = [obs EXCEPT ![j].elapsed = @ + 1]
    /\ UNCHANGED <<engineVars, credentials, runpc, batch_i, cursor, pc, result, path,
                   probes, catreqs, saved, fileVars, progress, runs, plan>>

\* The authentication call ends: by its timeout when its clock has run out,
\* by any other answer before.
AuthReturnsTimed(j, r) ==
    /\ (r.kind = "timeout") <=> CallTimedOut(obs[j].elapsed, Spent(j))
    /\ AuthStep(j, r)
    /\ obs' = [obs EXCEPT ![j].auth = r, ![j].auth_time = obs[j].elapsed, ![j].elapsed = 0]

CatReturnsTimed(j, r) ==
    /\ (r.kind = "timeout") <=> CallTimedOut(obs[j].elapsed, Spent(j))
    /\ CatStep(j, r)
    /\ obs' = [obs EXCEPT ![j].cat = r, ![j].cat_time = obs[j].elapsed, ![j].elapsed = 0]

ProbeObserved ==
    \E j \in Positions :
        \/ AcquireTimed(j)
        \/ Tick(j)
        \/ \E r \in AuthResponses : AuthReturnsTimed(j, r)
        \/ \E r \in CatResponses : CatReturnsTimed(j, r)
        \/ Exit(j)

\* The sequences of ObservedCredSeqs fit one chunk, so no next chunk is
\* launched.
NextObserved ==
    \/ RunObserved
    \/ ProbeObserved
    \/ Join
    \/ Save
    \/ Finish

SpecObserved == Init /\ [][NextObserved]_vars

\* ------------------------------------------------------------------ reuse
\* run() invoked on an engine whose earlier run() has returned or raised.
Finished == runpc \in {"done", "no_credentials", "aborted"}

RunFirst ==
    /\ runpc = "idle"
    /\ \E creds \in ReuseCredSeqs : RunBody(creds)

RunAgain ==
    /\ Finished
    /\ runs < MaxRuns
    /\ \E creds \in ReuseCredSeqs : RunBody(creds)

\* The sequences of ReuseCredSeqs fit one chunk, so no next chunk is started.
NextReuse ==
    \/ RunFirst
    \/ RunAgain
    \/ Probe
    \/ Join
    \/ Save
    \/ Finish

SpecReuse == Init /\ [][NextReuse]_vars

\* ------------------------------------------------------------------ deterministic endpoint
\* A target whose answers depend on the credential pair only, and a log file
\* whose k-th append fails or not whatever the schedule.
DetAuthAnswers ==
    { r \in AuthResponses :
          \/ r.kind = "timeout"
          \/ r.body = "user_info" /\ r.auth = 1 }

DetCatAnswers ==
    { r \in CatResponses :
          \/ r.kind = "timeout"
          \/ r.body = "list" /\ Len(r.names) = 2 }

Plans ==
    [ fail : 0..batch_size,
      auth : [Pairs -> DetAuthAnswers],
      cat  : [Pairs -> DetCatAnswers] ]

\* run() on a fresh engine against such a target.
RunDet ==
    /\ runpc = "idle"
    /\ \E creds \in CredSeqs, p \in Plans :
          /\ RunStep(creds)
          /\ plan' = p
          /\ UNCHANGED obs

\* Number of save_hit calls made so far in the run.
SaveCalls == Cardinality({j \in Positions : saved[j] # "no"})

ProbeDet ==
    \E j \in Positions :
        \/ Acquire(j)
        \/ AuthReturns(j, plan.auth[credentials[j]])
        \/ CatReturns(j, plan.cat[credentials[j]])
        \/ Exit(j)

SaveDet == SaveHit(IF SaveCalls + 1 = plan.fail THEN "open_error" ELSE "ok")

NextDet ==
    \/ RunDet
    \/ ProbeDet
    \/ Join
    \/ SaveDet
    \/ NextBatch
    \/ Finish

SpecDet == Init /\ [][NextDet]_vars

\* ------------------------------------------------------------------ save_hit in steps
\* save_hit awaits the open and the write of lines 243-244, so other tasks
\* could run while it is suspended.  Here the call of line 288 and the end of
\* save_hit are separate steps; saved[j] = "writing" in between.
Writing == {j \in Positions : saved[j] = "writing"}

\* Line 288: the loop calls save_hit for the next hit; "await" keeps the loop
\* from going on until the call has returned.
SaveBegin ==
    /\ runpc = "saving"
    /\ Writing = {}
    /\ FirstHitFrom(cursor) # 0
    /\ saved' = [saved EXCEPT ![FirstHitFrom(cursor)] = "writing"]
    /\ UNCHANGED <<engineVars, credentials, runpc, batch_i, cursor, pc, result, path,
                   probes, catreqs, fileVars, progress, runs, obs, plan>>

\* Lines 243-248: the suspended save_hit ends, by returning or by raising.
SaveEnd ==
    /\ Writing # {}
    /\ \E outcome \in AppendOutcomes : SaveHit(outcome)

NextSave ==
    \/ Run
    \/ Probe
    \/ Join
    \/ SaveBegin
    \/ SaveEnd
    \/ NextBatch
    \/ Finish

SpecSave == Init /\ [][NextSave]_vars

\* ------------------------------------------------------------------ claims
Done == {j \in Positions : pc[j] = "done"}
RunEnded == runpc \in {"done", "aborted"}

\* C1: the number of check_credential tasks holding a gate slot (between
\* acquiring and releasing the semaphore, both network calls included) never
\* exceeds max_concurrent; with max_concurrent = 1 no two probes are in flight
\* together.
C1_GateNeverExceeded ==
    /\ Cardinality(Holders) <= max_concurrent
    /\ max_concurrent = 1 => \A j, k \in Holders : j = k

\* A probe waits at a gate of capacity above 1 whose slots are all held.
C1_Witness ==
    /\ max_concurrent > 1
    /\ Cardinality(Holders) = max_concurrent
    /\ \E j \in Positions : pc[j] = "waiting"
    /\ \E j \in Positions : pc[j] = "cats"

\* C2: when a run over a non-empty sequence ends, every position has been
\* probed exactly once and has exactly one terminal verdict; at no time is a
\* position probed twice.
C2_EveryPositionProbedOnce ==
    /\ \A j \in Positions : probes[j] <= 1
    /\ RunEnded => \A j \in Positions : probes[j] = 1 /\ result[j].kind \in {"None", "dict"}

\* C3: when run() finishes after it started probing, tested = total_tests,
\* whatever the probes and the appends did.
C3_TestedEqualsTotalAtEnd == RunEnded => tested = total_tests

\* C4: on an engine instance, after any probes, appends and run() calls,
\* tested <= total_tests and total_hits <= tested.
C4_CounterBounds == tested <= total_tests /\ total_hits <= tested

\* C5: no probe of a later chunk has left "not launched" (so none has
\* acquired the gate or issued a request) while a probe of an earlier chunk
\* has not returned its verdict.
C5_BatchBarrier ==
    \A j, k \in Positions :
        (Chunk(j) < Chunk(k) /\ (pc[k] # "idle" \/ probes[k] > 0)) =>
            (pc[j] = "done" /\ result[j].kind \in {"None", "dict"})

\* A probe of the second chunk is in flight.
C5_Witness == \E k \in Positions : Chunk(k) = 1 /\ pc[k] = "auth"

\* C6: once a probe of chunk k+1 is launched, or the run reports completion,
\* save_hit has been called and has returned for every hit of chunk k (and of
\* the chunks before it).
C6_HitsSavedBeforeChunkCompletes ==
    \A j \in Positions :
        (/\ IsHit(result[j])
         /\ \/ runpc = "done"
            \/ \E k \in Positions : Chunk(j) < Chunk(k) /\ pc[k] # "idle") =>
            saved[j] = "ok"

\* A second chunk is launched after a chunk whose second result was its only
\* hit.
C6_Witness ==
    /\ Len(credentials) > batch_size
    /\ pc[batch_size + 1] = "waiting"
    /\ result[1] = None
    /\ IsHit(result[2])

\* C7: tested equals the number of probes that have passed their exit step,
\* whatever path each took.
C7_TestedCountsExits == tested = Cardinality(Done)

\* Probes have left through the exception, the rejection and the
\* authenticated path while another is still in flight.
C7_Witness ==
    /\ \E j \in Done : path[j] = "exception"
    /\ \E j \in Done : path[j] = "rejected"
    /\ \E j \in Done : path[j] = "authenticated"
    /\ \E j \in Positions : pc[j] = "auth"

\* C8: free slots plus held slots is max_concurrent at all times, and once
\* every launched probe has terminated (the chunk is joined, the run has
\* ended) no slot is held and all max_concurrent slots are free.
C8_SlotsReleasedOnEveryPath ==
    /\ semaphore + Cardinality(Holders) = max_concurrent
    /\ (\A j \in Positions : pc[j] \in {"idle", "done"}) =>
           (Holders = {} /\ semaphore = max_concurrent)

\* The run has completed after probes left on each exit path.
C8_Witness ==
    /\ runpc = "done"
    /\ \E j \in Done : path[j] = "exception"
    /\ \E j \in Done : path[j] = "rejected"
    /\ \E j \in Done : path[j] = "authenticated"

\* C9: a probe that failed ends with the verdict None; the run is aborted
\* only by a failed append, never by a probe; while the run is under way some
\* step is always possible; and a run that completes has a verdict for every
\* position of every chunk.
C9_ProbeFailuresAbsorbed ==
    /\ \A j \in Positions : path[j] \in {"rejected", "exception"} => result[j] = None
    /\ \A j \in Positions : pc[j] \in {"exit", "done"} => result[j].kind \in {"None", "dict"}
    /\ runpc = "aborted" => \E j \in Positions : saved[j] = "failed"
    /\ runpc \in {"gather", "saving"} => ENABLED Next
    /\ runpc = "done" => \A j \in Positions : pc[j] = "done"

\* The run has completed although a probe of the first chunk raised and
\* another was rejected; the second chunk was probed.
C9_Witness ==
    /\ runpc = "done"
    /\ Len(credentials) > batch_size
    /\ path[1] = "exception"
    /\ path[2] = "rejected"
    /\ pc[batch_size + 1] = "done"

\* C10: a failed append does not abort the run: the run is never aborted,
\* and when it ends every hit has been passed to save_hit and every position
\* has been probed.
C10_AppendFailureDoesNotAbort ==
    /\ runpc # "aborted"
    /\ Finished => \A j \in Positions : pc[j] = "done" /\ (IsHit(result[j]) => saved[j] # "no")

\* The positions whose task returned a hit, and those whose hit was appended.
HitPositions == {j \in Positions : IsHit(result[j])}
SavedPositions == {j \in Positions : saved[j] = "ok"}
IsPrefix(a, b) == Len(a) <= Len(b) /\ SubSeq(b, 1, Len(a)) = a

\* C11: total_hits equals the number of records appended successfully, in
\* every state: a save_hit whose append failed has left it unchanged.
C11_HitsCountSuccessfulAppends ==
    /\ total_hits = Len(log)
    /\ total_hits = Cardinality(SavedPositions)

\* One append has succeeded and a later one has failed.
C11_Witness ==
    /\ \E j \in Positions : saved[j] = "ok"
    /\ \E j \in Positions : saved[j] = "failed"
    /\ total_hits = 1

\* C12: only hits are appended and each at most once; a run that completes
\* (so none of its appends failed) has exactly one record per hit; while no
\* task has returned a hit the log is empty and its file does not exist, and
\* such a run still ends with tested = total_tests; a step never removes or
\* rewrites what the log holds.
C12_OneRecordPerHitAppendOnly ==
    /\ [](/\ SavedPositions \subseteq HitPositions
          /\ Len(log) = Cardinality(SavedPositions)
          /\ runpc = "done" => Len(log) = Cardinality(HitPositions)
          /\ HitPositions = {} => (log = <<>> /\ ~log_exists)
          /\ (runpc = "done" /\ HitPositions = {}) => tested = total_tests)
    /\ [][IsPrefix(log, log') /\ (log_exists => log_exists')]_vars

\* A completed run whose first and third pair are the same pair and both
\* authenticated with the same categories: two equal records.
C12_Witness ==
    /\ runpc = "done"
    /\ Len(log) = 2
    /\ log[1] = log[2]
    /\ HitPositions = {1, 3}

\* What the claims call a success of the authentication call: a 200 answer
\* with a parseable body whose user_info has auth = 1 and a status other than
\* "Expired".
AuthSucceeded(a) ==
    /\ a.kind = "response"
    /\ a.status = 200
    /\ a.body = "user_info"
    /\ a.auth = 1
    /\ a.ustatus # "Expired"

\* C13: once the authentication call of a position has returned, the probe
\* goes on to the categories request and ends as a hit exactly when the
\* answer was a success; after any other answer it returns None and has
\* issued no categories request.
C13_AuthenticatedIffAuthSucceeded ==
    \A j \in Positions :
        IF obs[j].auth = NoAnswer
        THEN result[j] = Pending /\ catreqs[j] = 0
        ELSE /\ AuthSucceeded(obs[j].auth) =>
                    (catreqs[j] = 1 /\ (pc[j] = "cats" \/ IsHit(result[j])))
             /\ ~AuthSucceeded(obs[j].auth) => (catreqs[j] = 0 /\ result[j] = None)
             /\ pc[j] = "done" => (IsHit(result[j]) <=> AuthSucceeded(obs[j].auth))

\* A probe was refused for an expired account although the answer carried
\* auth = 1, and it issued no categories request.
C13_Witness ==
    \E j \in Done : /\ obs[j].auth.kind = "response"
                    /\ obs[j].auth.auth = 1
                    /\ obs[j].auth.ustatus = "Expired"
                    /\ result[j] = None
                    /\ catreqs[j] = 0

\* What the claims call a failure of the categories call.
CatFailed(c) == ~(c.kind = "response" /\ c.status = 200 /\ c.body = "list")

\* C14: once the categories call of a position has returned, the task's
\* result is the hit of its pair; if the call failed its categories are
\* empty; the hit is in the log when the run has completed; and the call was
\* ended by its timeout exactly when its own clock had reached self.timeout,
\* whatever time the authentication call took.
C14_CategoriesFailureKeepsHit ==
    \A j \in Positions :
        obs[j].cat # NoAnswer =>
            /\ IsHit(result[j])
            /\ result[j].user_info = credentials[j]
            /\ CatFailed(obs[j].cat) => result[j].categories = <<>>
            /\ runpc = "done" =>
                   (saved[j] = "ok" /\ \E n \in 1..Len(log) : log[n] = result[j])
            /\ (obs[j].cat.kind = "timeout") <=> (obs[j].cat_time = timeout)
            /\ obs[j].auth_time < timeout

\* A completed run recorded a hit with empty categories whose categories
\* call was answered, unparseably, when the probe had already spent
\* self.timeout in its two calls.
C14_Witness ==
    /\ runpc = "done"
    /\ \E j \in SavedPositions :
          /\ obs[j].cat.kind = "response"
          /\ obs[j].cat.body = "malformed"
          /\ result[j].categories = <<>>
          /\ obs[j].auth_time + obs[j].cat_time >= timeout

\* The chunk in flight when tested reaches t.
ChunkOfCount(t) == (t - 1) \div batch_size

\* Cadence of the progress line within one run on a fresh engine: one
\* observation per multiple of progress_every that tested has reached, each
\* with the tested value that triggered it, total_tests, and the hits saved
\* for the chunks before the one in flight.
ProgressCadence ==
    /\ Len(progress) = tested \div progress_every
    /\ \A n \in 1..Len(progress) :
          /\ progress[n].tested = n * progress_every
          /\ progress[n].total = total_tests
          /\ progress[n].hits =
                Cardinality({j \in SavedPositions : Chunk(j) < ChunkOfCount(n * progress_every)})

\* C15: an observation is emitted exactly when tested reaches a multiple of
\* progress_every, carrying tested, total_tests and total_hits, and a run over
\* L pairs has emitted exactly L \div progress_every observations when it ends.
C15_ProgressObservations ==
    /\ ProgressCadence
    /\ RunEnded => Len(progress) = Len(credentials) \div progress_every

\* C16: a run() whose credential sequence is empty ends in the "no
\* credentials" report, not in the final report; it has no probe, holds no
\* gate slot, and the step that performs it leaves tested, total_tests,
\* total_hits, the gate, the log and the progress output as they were.
C16_EmptyInputReturnsEarly ==
    /\ []((credentials = <<>> /\ runs > 0) => runpc = "no_credentials")
    /\ [](runpc = "no_credentials" =>
             (Positions = {} /\ Holders = {} /\ semaphore = max_concurrent))
    /\ [][(runs' # runs /\ credentials' = <<>>) =>
             UNCHANGED <<tested, total_tests, total_hits, semaphore, log, log_exists, progress>>]_vars

\* run() with an empty sequence on an engine that has tested pairs before.
C16_Witness ==
    /\ runpc = "no_credentials"
    /\ runs = 2
    /\ tested > 0
    /\ total_tests > 0

\* The verdict the claims assign to pair p against the target of plan.
DetVerdict(p) ==
    IF AuthSucceeded(plan.auth[p])
    THEN HitDict(p, IF CatFailed(plan.cat[p]) THEN <<>> ELSE CategoryNames(plan.cat[p].names))
    ELSE None

\* The positions of credentials whose pair is a hit, in input order.
DetHitSeq ==
    SelectSeq([j \in 1..Len(credentials) |-> j], LAMBDA j : IsHit(DetVerdict(credentials[j])))

\* The save_hit call that fails in this run, 0 when none does.
DetFailing == IF plan.fail <= Len(DetHitSeq) THEN plan.fail ELSE 0

\* The log, tested and total_hits a run ends with, from credentials and plan
\* alone: every hit recorded, or those before the failing append and the
\* chunk of the failing one probed to its end.
DetLog ==
    LET n == IF DetFailing = 0 THEN Len(DetHitSeq) ELSE DetFailing - 1
    IN  [k \in 1..n |-> DetVerdict(credentials[DetHitSeq[k]])]

DetTested ==
    IF DetFailing = 0 THEN Len(credentials)
    ELSE LET last == (Chunk(DetHitSeq[DetFailing]) + 1) * batch_size
         IN  IF last < Len(credentials) THEN last ELSE Len(credentials)

\* C17: against a target whose answer depends on the pair only, the result
\* of every task is the verdict of its pair, so two tasks of the same pair
\* end with the same result; and the log, tested and total_hits a run ends
\* with are determined by the credentials and the target, whatever
\* max_concurrent is and however the tasks interleave.
C17_VerdictsIndependentOfGate ==
    /\ \A j \in Positions : result[j] # Pending => result[j] = DetVerdict(credentials[j])
    /\ \A j, k \in Positions :
          (credentials[j] = credentials[k] /\ result[j] # Pending /\ result[k] # Pending)
              => result[j] = result[k]
    /\ RunEnded =>
          /\ log = DetLog
          /\ total_hits = Len(DetLog)
          /\ tested = DetTested

\* A completed run with two slots probed the same pair at positions 1 and 3
\* of one chunk, both hits, and another pair between them that is none.
C17_Witness ==
    /\ runpc = "done"
    /\ max_concurrent > 1
    /\ Len(credentials) >= 3
    /\ credentials[1] = credentials[3]
    /\ IsHit(result[1]) /\ result[3] = result[1]
    /\ result[2] = None
    /\ Len(log) = 2

\* C18: a run starts with tested = 0, total_hits = 0 and total_tests equal to
\* the length of its credentials: while the first chunk is in flight and no
\* task of the run has finished, the counters hold these values, also when
\* the engine has run before.
C18_CountersResetOnRun ==
    (runpc = "gather" /\ batch_i = 0 /\ Done = {}) =>
        /\ tested = 0
        /\ total_hits = 0
        /\ total_tests = Len(credentials)

\* Every task waiting at the gate is eventually granted a slot, and every
\* task launched eventually returns, whatever the chunk length and the
\* capacity are.
GateLiveness ==
    \A j \in 1..MaxCreds :
        /\ (j \in Positions /\ pc[j] = "waiting") ~> (j \in Positions /\ pc[j] # "waiting")
        /\ (j \in Positions /\ pc[j] # "idle") ~> (j \in Positions /\ pc[j] = "done")

\* A started run eventually returns or raises.
RunTerminates == (runs > 0) ~> Finished

\* C19: under fair scheduling every task waiting at the gate is eventually
\* admitted, and a started run eventually completes all its chunks: every
\* position is probed and run() reaches its final report.
C19_RunCompletesAllChunks ==
    /\ GateLiveness
    /\ (runs > 0 /\ credentials # <<>>) ~> (runpc = "done" /\ Done = Positions)

\* The positions whose record was appended, in input order.
SavedSeq == SelectSeq([j \in 1..Len(credentials) |-> j], LAMBDA j : saved[j] = "ok")

\* C20: the log holds the records of the saved positions in input order,
\* and no hit is passed over: when a position's record is in the log, so is
\* the record of every hit before it, of its chunk and of the chunks before;
\* this holds in every state, so for every order in which the tasks of a
\* chunk return.
C20_LogInInputOrder ==
    /\ log = [n \in 1..Len(SavedSeq) |-> result[SavedSeq[n]]]
    /\ \A j \in SavedPositions : \A k \in 1..j : IsHit(result[k]) => saved[k] = "ok"
    /\ runpc = "done" => SavedPositions = HitPositions

\* A completed run with two slots whose four positions, in two chunks, were
\* all hits of alternating pairs: the log names the pairs in input order.
C20_Witness ==
    /\ runpc = "done"
    /\ max_concurrent > 1
    /\ Len(credentials) = 4
    /\ credentials[1] # credentials[2]
    /\ Len(log) = 4
    /\ \A n \in 1..4 : log[n].user_info = credentials[n]

\* Positions whose task has been launched and has not returned.
InFlight == {j \in Positions : pc[j] \notin {"idle", "done"}}

\* C21: while save_hit is called or suspended no task is in flight and none
\* holds a gate slot, and at most one save_hit is in progress; total_hits
\* changes only in steps taken while no task is in flight; and the hits of
\* a progress observation count the records of the chunks before the one
\* whose task emitted it.
C21_SaveOnlyBetweenChunks ==
    /\ [](/\ (runpc = "saving" \/ Writing # {}) =>
                 (InFlight = {} /\ Holders = {} /\ semaphore = max_concurrent)
          /\ Cardinality(Writing) <= 1
          /\ InFlight # {} => total_hits = Cardinality({j \in SavedPositions : Chunk(j) < batch_i \div batch_size})
          /\ \A n \in 1..Len(progress) :
                progress[n].hits =
                    Cardinality({j \in SavedPositions : Chunk(j) < ChunkOfCount(progress[n].tested)}))
    /\ [][total_hits' # total_hits => (InFlight = {} /\ InFlight' = {} /\ Writing # {})]_vars

\* save_hit is suspended for a hit of the second chunk, whose task emitted
\* a progress observation carrying the hits recorded for the first chunk.
C21_Witness ==
    /\ batch_i > 0
    /\ Writing # {}
    /\ total_hits > 0
    /\ \E n \in 1..Len(progress) :
          progress[n].hits > 0 /\ ChunkOfCount(progress[n].tested) > 0
====
